---- MODULE Spec2Model ----
(***************************************************************************)
(* Model of the link checker (internal/checker/checker.go): the sitemap    *)
(* loader, the recursive depth-bounded crawler and the concurrent batch    *)
(* status checker.                                                         *)
(*                                                                         *)
(* URLs are records [host, n, ext]: page number n on a host, with a file   *)
(* extension.  The web site is the variable `site`; a page's content is    *)
(* fixed the first time it is looked at and never changes afterwards, and  *)
(* path numbers are handed out in order of first appearance.               *)
(***************************************************************************)
EXTENDS Integers, Sequences, FiniteSets, TLC

\* ---------------------------------------------------------------- bounds
MaxLinks == 2         \* anchors on one page
MaxAnchors == 4       \* anchors on the whole site
RecrawlAnchors == 5   \* anchors on the whole site, when it is crawled twice
LiveAnchors == 3      \* anchors on the whole site, in the termination check
MaxDepthBound == 2    \* largest maxDepth of a first CrawlWebsite call
MaxLocs == 4          \* <url><loc> entries in a sitemap
MaxURLs == 3          \* URLs handed to CheckLinks
LiveURLs == 2         \* URLs handed to CheckLinks, in the check of its return
MaxConcBound == 2     \* largest MaxConcurrent
MaxPathLen == 4       \* tokens in the path of a URL handed to the resolver
MaxElems == 2         \* elements of a document handed to the extractor
MaxLinkURLs == 3      \* site URLs handed to checkSingleLink on its own
MaxMimeLen == 3       \* tokens in a string handed to the MIME classifier

\* ------------------------------------------------------------------ URLs
\* every page but the seed appears as an anchor: page numbers are 1..RecrawlAnchors + 1
Exts == {"", "pdf"}
MkURL(h, n, e) == [host |-> h, n |-> n, ext |-> e]
SiteURLs == {MkURL("site", n, e) : n \in 1..(RecrawlAnchors + 1), e \in Exts}
External == MkURL("other", 1, "")
BadURL == MkURL("", 0, "%")
EmptyLoc == MkURL("", 0, "")   \* <loc></loc>
LocEntries ==
  {MkURL("site", n, e) : n \in 1..2, e \in Exts} \cup {External, BadURL, EmptyLoc}

\* url.Parse succeeds on everything but the malformed string
ParseOK(u) == u # BadURL

Min(a, b) == IF a < b THEN a ELSE b
Range(s) == {s[i] : i \in 1..Len(s)}

VARIABLES
  config,    \* the Checker's configuration
  site,      \* the web site: URL -> page (status, anchors)
  known,     \* the URLs of the site that have appeared so far
  budget,    \* anchors the site may still show
  pc,        \* "idle", "run" (inside CrawlWebsite), "done"
  op,        \* which operation was called
  seed,      \* CrawlWebsite's baseURL argument
  maxDepth,  \* CrawlWebsite's maxDepth argument
  visited,   \* CrawlWebsite's visited map
  urls,      \* the result slice (of CrawlWebsite or GetURLsFromSitemap)
  err,       \* the returned error is non-nil
  stack,     \* the recursion stack of crawl
  depths,    \* depths[i]: recursion depth at which urls[i] was appended
  fetchLog,  \* pages handed to extractLinksFromPage, in order
  locs,      \* the <loc> entries of the sitemap that was fetched
  prev,      \* result of the previous CrawlWebsite call on this site
  links,     \* CheckLinks' urls argument
  results,   \* CheckLinks' results slice
  mpc,       \* CheckLinks' own position: "idle", "spawn", "wait", "returned"
  next,      \* the index the range loop of CheckLinks is at
  wpc,       \* position of each worker goroutine
  semaphore, \* number of elements in the semaphore channel
  wg,        \* the WaitGroup counter
  writes,    \* writes[i]: the workers that wrote results[i], in order
  probes,    \* the workers that called checkSingleLink
  limited,   \* the workers whose limiter.Wait returned an error
  noResponse, \* the workers whose check obtained no HTTP response
  outOfOrder, \* some result was written before the result of an earlier URL
  xpc,       \* extractLinksFromPage / getResolveBaseURL: "idle", "resolver", "links", "done"
  xop,       \* which of the two was called
  doc,       \* the parsed document
  currentURL, \* extractLinksFromPage's currentURL argument
  siteBase,  \* extractLinksFromPage's baseURL argument
  found,     \* resolveBaseURL no longer is the currentURL pointer
  resolveBaseURL, \* the base the hrefs are resolved against
  xlinks,    \* the links extractLinksFromPage returns
  xerr,      \* extractLinksFromPage returns an error
  rpc,       \* getResolveBaseURL: "idle", "probe", "done"
  rin,       \* getResolveBaseURL's argument
  rout,      \* getResolveBaseURL's result
  heads,     \* the URLs of the HEAD requests isFileByContentType sent
  probed,    \* what the last probe met
  cpc,       \* isFileMimeType called on its own: "idle", "classified"
  cmime,     \* isFileMimeType's argument
  isFile,    \* isFileMimeType's result
  lpc,       \* checkSingleLink called on its own: "idle", "head", "get", "done"
  lurl,      \* checkSingleLink's argument
  methods,   \* the methods of the requests it sent, in order
  lhead,     \* what the HEAD request met (-1: not sent, 0: transport error)
  lget,      \* what the GET request met
  lresult,   \* the LinkResult it returned
  apc,       \* main: "idle", "urls" (flags read, URLs being found or checked), "exited"
  failOnError, \* cfg.FailOnError
  brokenLinks, \* main's brokenLinks slice
  exitCode,  \* the exit code of the process (-1 while it runs)
  again,     \* getResolveBaseURL was called a second time, on its own result
  firstOut,  \* the result of the first call
  firstHeads \* the HEAD requests sent up to the second call

crawlVars == <<config, site, known, budget, pc, op, seed, maxDepth, visited,
               urls, err, stack, depths, fetchLog, locs, prev>>

checkVars == <<links, results, mpc, next, wpc, semaphore, wg,
               writes, probes, limited, noResponse, outOfOrder>>

pageVars == <<xpc, xop, doc, currentURL, siteBase, found, resolveBaseURL, xlinks,
              xerr, rpc, rin, rout, heads, probed>>

mimeVars == <<cpc, cmime, isFile>>

linkVars == <<lpc, lurl, methods, lhead, lget, lresult>>

mainVars == <<apc, failOnError, brokenLinks, exitCode>>

againVars == <<again, firstOut, firstHeads>>

unitVars == <<mimeVars, linkVars, mainVars, againVars>>

vars == <<crawlVars, checkVars, pageVars, unitVars>>

\* ------------------------------------------------------- exclude patterns
Patterns == {"\\.pdf$"}

MatchString(pattern, u) == pattern = "\\.pdf$" /\ u.ext = "pdf"

ExcludeNothing(u) == FALSE

shouldExclude(u) == \E pattern \in config.ExcludePatterns : MatchString(pattern, u)

\* ------------------------------------------------------------ the web site
UnknownPage == [status |-> "unknown", anchors |-> <<>>]
FailPage == [status |-> "fail", anchors |-> <<>>]
OKPage(c) == [status |-> "ok", anchors |-> c]

\* page numbers appear in order: an anchor leads to a URL that has appeared
\* already, to another host, or to the next new page of the site
RECURSIVE Canonical(_, _)
Canonical(c, k) ==
  IF c = <<>> THEN TRUE
  ELSE LET a == Head(c) IN
       /\ a.host = "site" => (a \in k \/ a.n = Cardinality(k) + 1)
       /\ Canonical(Tail(c), IF a.host = "site" THEN k \cup {a} ELSE k)

Contents(k, b) ==
  {c \in UNION {[1..m -> SiteURLs \cup {External}] : m \in 0..Min(MaxLinks, b)} :
     Canonical(c, k)}

\* what a GET of page u answers
Responses(u) ==
  IF site[u].status = "unknown"
  THEN {FailPage} \cup {OKPage(c) : c \in Contents(known, budget)}
  ELSE {site[u]}

Serve(u, page) ==
  /\ site' = [site EXCEPT ![u] = page]
  /\ known' = known \cup {a \in Range(page.anchors) : a.host = "site"}
  /\ budget' = IF site[u].status = "unknown" THEN budget - Len(page.anchors) ELSE budget

\* extractLinksFromPage on a page that was fetched and parsed: the anchors
\* whose host is the base URL's host, in document order
SameHost(linkURL, baseURL) == linkURL.host = baseURL.host

extractLinksFromPage(page, baseURL) ==
  SelectSeq(page.anchors, LAMBDA a : SameHost(a, baseURL))

\* ------------------------------------------------------------ CrawlWebsite
NoCall == [maxDepth |-> -2, urls |-> <<>>]
Frame(u, d) == [url |-> u, depth |-> d, at |-> "enter", links |-> <<>>, i |-> 0]
Top == stack[Len(stack)]
Pop(s) == SubSeq(s, 1, Len(s) - 1)
SetTop(s, f) == [s EXCEPT ![Len(s)] = f]

\* a crawl without the depth guard at its entry
NeverExceeded(depth) == FALSE

DepthExceeded(depth) == depth > maxDepth

\* a crawl that applies the exclude patterns to every URL it is called with
SkipExcluded(u, depth) == DepthExceeded(depth) \/ u \in visited \/ shouldExclude(u)

\* lines 109-117: the two early returns of crawl
SkipCrawl(u, depth) == DepthExceeded(depth) \/ u \in visited

NeverAtMaxDepth(depth) == FALSE

AtMaxDepth(depth) == depth = maxDepth

ForgetVisited(v, u) == v

MarkVisited(v, u) == v \cup {u}

Prepend(s, u) == <<u>> \o s

AppendURL(s, u) == Append(s, u)

\* return from the innermost crawl call; the outermost return ends CrawlWebsite
Return ==
  /\ stack' = Pop(stack)
  /\ pc' = IF Len(stack) = 1 THEN "done" ELSE "run"
  /\ UNCHANGED <<err, urls>>

\* a bug that fails the whole crawl when one page cannot be extracted
ExtractErrorAborts ==
  /\ stack' = <<>>
  /\ pc' = "done"
  /\ err' = TRUE
  /\ urls' = <<>>

ExtractError == Return

\* a bug that re-examines the same link for ever
StayOnLink(f) == f

NextLink(f) == [f EXCEPT !.i = f.i + 1]

\* lines 98-105 and 157: fresh visited map and result, parse the seed, crawl(baseURL, 0)
CrawlCall(baseURL, depth) ==
  /\ op' = "crawl"
  /\ seed' = baseURL
  /\ maxDepth' = depth
  /\ visited' = {}
  /\ urls' = <<>>
  /\ depths' = <<>>
  /\ fetchLog' = <<>>
  /\ IF ParseOK(baseURL)
     THEN pc' = "run" /\ err' = FALSE /\ stack' = <<Frame(baseURL, 0)>>
     ELSE pc' = "done" /\ err' = TRUE /\ stack' = <<>>
  /\ known' = known \cup (IF ParseOK(baseURL) THEN {baseURL} ELSE {})
  /\ UNCHANGED <<config, site, budget, locs>>
  /\ UNCHANGED <<checkVars, pageVars, unitVars>>

CrawlWebsite(baseURL, depth) ==
  /\ pc = "idle"
  /\ CrawlCall(baseURL, depth)
  /\ UNCHANGED prev

\* the caller crawls the same site again from the same seed, one level deeper
Recrawl ==
  /\ pc = "done" /\ op = "crawl" /\ ~err /\ prev = NoCall
  /\ prev' = [maxDepth |-> maxDepth, urls |-> urls]
  /\ CrawlCall(seed, maxDepth + 1)

CrawlEnter ==
  /\ pc = "run" /\ Top.at = "enter"
  /\ IF SkipCrawl(Top.url, Top.depth)
     THEN Return /\ UNCHANGED <<visited, depths>>
     ELSE /\ visited' = MarkVisited(visited, Top.url)
          /\ urls' = AppendURL(urls, Top.url)
          /\ depths' = Append(depths, Len(stack) - 1)
          /\ IF AtMaxDepth(Top.depth)
             THEN stack' = Pop(stack) /\ pc' = IF Len(stack) = 1 THEN "done" ELSE "run"
             ELSE stack' = SetTop(stack, [Top EXCEPT !.at = "extract"]) /\ pc' = "run"
          /\ UNCHANGED err
  /\ UNCHANGED <<config, site, known, budget, op, seed, maxDepth, fetchLog, locs, prev>>
  /\ UNCHANGED <<checkVars, pageVars, unitVars>>

CrawlExtract ==
  /\ pc = "run" /\ Top.at = "extract"
  /\ IF ~ParseOK(Top.url)
     THEN ExtractError /\ UNCHANGED <<site, known, budget, fetchLog>>
     ELSE /\ fetchLog' = Append(fetchLog, Top.url)
          /\ \E page \in Responses(Top.url) :
               /\ Serve(Top.url, page)
               /\ IF page.status # "ok"
                  THEN ExtractError
                  ELSE /\ stack' = SetTop(stack, [Top EXCEPT !.at = "loop", !.i = 1,
                                   !.links = extractLinksFromPage(page, seed)])
                       /\ UNCHANGED <<pc, err, urls>>
  /\ UNCHANGED <<config, op, seed, maxDepth, visited, depths, locs, prev>>
  /\ UNCHANGED <<checkVars, pageVars, unitVars>>

CrawlLoop ==
  /\ pc = "run" /\ Top.at = "loop"
  /\ IF Top.i > Len(Top.links)
     THEN Return
     ELSE LET link == Top.links[Top.i] IN
          /\ IF link \notin visited /\ ~shouldExclude(link)
             THEN stack' = Append(SetTop(stack, [Top EXCEPT !.i = Top.i + 1]),
                                  Frame(link, Top.depth + 1))
             ELSE stack' = SetTop(stack, NextLink(Top))
          /\ UNCHANGED <<pc, err, urls>>
  /\ UNCHANGED <<config, site, known, budget, op, seed, maxDepth, visited, depths,
                 fetchLog, locs, prev>>
  /\ UNCHANGED <<checkVars, pageVars, unitVars>>

\* the site also has content on the pages the crawl recorded and never fetched
FirstUnknown ==
  LET idx == {i \in 1..Len(urls) : site[urls[i]].status = "unknown"} IN
  IF idx = {} THEN 0 ELSE CHOOSE i \in idx : \A j \in idx : i <= j

SiteContent ==
  /\ pc = "done" /\ op = "crawl" /\ FirstUnknown # 0
  /\ \E page \in Responses(urls[FirstUnknown]) : Serve(urls[FirstUnknown], page)
  /\ UNCHANGED <<config, pc, op, seed, maxDepth, visited, urls, err, stack, depths,
                 fetchLog, locs, prev>>
  /\ UNCHANGED <<checkVars, pageVars, unitVars>>

\* ------------------------------------------------------ GetURLsFromSitemap
SitemapOutcomes == {"request", "transport", "status", "read", "xml", "ok"}

\* a filter that also validates the entries
ValidLocs(entries) == SelectSeq(entries, LAMBDA loc : ~shouldExclude(loc) /\ ParseOK(loc))

FilterLocs(entries) == SelectSeq(entries, LAMBDA loc : ~shouldExclude(loc))

GetURLsFromSitemap ==
  /\ pc = "idle"
  /\ \E outcome \in SitemapOutcomes :
     \E entries \in UNION {[1..m -> LocEntries] : m \in 0..MaxLocs} :
       /\ locs' = IF outcome = "ok" THEN entries ELSE <<>>
       /\ err' = (outcome # "ok")
       /\ urls' = IF outcome = "ok" THEN FilterLocs(entries) ELSE <<>>
  /\ pc' = "done"
  /\ op' = "sitemap"
  /\ UNCHANGED <<config, site, known, budget, seed, maxDepth, visited, stack, depths,
                 fetchLog, prev>>
  /\ UNCHANGED <<checkVars, pageVars, unitVars>>

\* -------------------------------------------------------------- CheckLinks
NoURL == MkURL("", 0, "")
CheckURLs == {MkURL("site", 1, ""), BadURL}
Responses400 == {200, 404}
Outcomes == {0} \cup Responses400     \* 0: no response (transport error)
\* the status codes of the checkSingleLink tests, and 0 for a transport error
Statuses == {200, 201, 301, 302, 400, 401, 403, 404, 405, 500, 502, 503}

LinkResult(u, code, e, d) == [URL |-> u, StatusCode |-> code, Error |-> e, Duration |-> d]
ZeroResult == LinkResult(NoURL, 0, "", "")

\* no request could be built, or neither HEAD nor GET got a response
NoResponse(checkURL, head, get) == ~ParseOK(checkURL) \/ (head = 0 /\ get = 0)

\* a bug that reports a check without response like a success
checkSingleLinkSilent(checkURL, head, get) ==
  LET code == IF ~ParseOK(checkURL) THEN 0 ELSE IF head # 0 THEN head ELSE get IN
  LinkResult(checkURL, code, IF code >= 400 THEN "HTTP" ELSE "", "t")

\* a check that also retries with GET when the server rejects HEAD
HeadRejected(head) == head = 0 \/ head = 405

\* lines 554-555: client.Do returned an error for the HEAD request
HeadFailed(head) == head = 0

\* checkSingleLink: HEAD, then GET when HEAD got no response
checkSingleLink(checkURL, head, get) ==
  IF ~ParseOK(checkURL) THEN LinkResult(checkURL, 0, "creating request", "t")
  ELSE LET code == IF ~HeadFailed(head) THEN head ELSE get IN
       IF code = 0 THEN LinkResult(checkURL, 0, "request failed", "t")
       ELSE LinkResult(checkURL, code, IF code >= 400 THEN "HTTP" ELSE "", "t")

\* checkSingleLink called on its own, request by request
\* lines 544-552: the request is built
LinkCall(checkURL) ==
  /\ lpc = "idle"
  /\ lurl' = checkURL
  /\ IF ~ParseOK(checkURL)
     THEN lresult' = checkSingleLink(checkURL, 0, 0) /\ lpc' = "done"
     ELSE lpc' = "head" /\ UNCHANGED lresult
  /\ UNCHANGED <<methods, lhead, lget>>
  /\ UNCHANGED <<mimeVars, mainVars, againVars>>

\* lines 554-555 and 567-579: the HEAD request and, if it was answered, the result
LinkHead ==
  /\ lpc = "head"
  /\ methods' = Append(methods, "HEAD")
  /\ \E head \in {0} \cup Statuses :
       /\ lhead' = head
       /\ IF HeadFailed(head)
          THEN lpc' = "get" /\ UNCHANGED lresult
          ELSE lresult' = checkSingleLink(lurl, head, 0) /\ lpc' = "done"
  /\ UNCHANGED <<lurl, lget>>
  /\ UNCHANGED <<mimeVars, mainVars, againVars>>
  /\ UNCHANGED <<crawlVars, checkVars, pageVars>>

\* lines 556-579: the GET request and the result
LinkGet ==
  /\ lpc = "get"
  /\ methods' = Append(methods, "GET")
  /\ \E get \in {0} \cup Statuses :
       /\ lget' = get
       /\ lresult' = checkSingleLink(lurl, lhead, get)
  /\ lpc' = "done"
  /\ UNCHANGED <<lurl, lhead>>
  /\ UNCHANGED <<mimeVars, mainVars, againVars>>
  /\ UNCHANGED <<crawlVars, checkVars, pageVars>>

Workers == 1..Len(links)
Holders == {w \in Workers : wpc[w] \in {"limit", "check", "release"}}

\* a goroutine that reads the loop variable instead of its own argument
LoopVar(index) == Min(next, Len(links))

Slot(index) == index

\* the slot is given back by a deferred receive, so on every return path
SkipRelease == "wgdone"

AfterLimiterError == "release"

\* lines 495-501
CheckLinks(list) ==
  /\ mpc = "idle"
  /\ links' = list
  /\ results' = [i \in 1..Len(list) |-> ZeroResult]
  /\ wpc' = [i \in 1..Len(list) |-> "none"]
  /\ wg' = 0
  /\ semaphore' = 0
  /\ next' = 1
  /\ mpc' = "spawn"
  /\ writes' = [i \in 1..Len(list) |-> <<>>]
  /\ UNCHANGED <<probes, limited, noResponse, outOfOrder>>
  /\ UNCHANGED <<crawlVars, pageVars, unitVars>>

\* lines 503-505, 533: one iteration of the range loop
Spawn ==
  /\ mpc = "spawn"
  /\ IF next <= Len(links)
     THEN /\ wg' = wg + 1
          /\ wpc' = [wpc EXCEPT ![next] = "acquire"]
          /\ next' = next + 1
          /\ mpc' = "spawn"
     ELSE /\ mpc' = "wait"
          /\ UNCHANGED <<wg, wpc, next>>
  /\ UNCHANGED <<links, results, semaphore, writes, probes, limited, noResponse,
                 outOfOrder>>
  /\ UNCHANGED <<crawlVars, pageVars, unitVars>>

\* a channel that always has room for one element
AtLeastOne == IF config.MaxConcurrent < 1 THEN 1 ELSE config.MaxConcurrent

\* line 501: the capacity of the semaphore channel
Capacity == config.MaxConcurrent

\* line 509: the send blocks while the channel is full
Acquire(w) ==
  /\ wpc[w] = "acquire"
  /\ semaphore < Capacity
  /\ semaphore' = semaphore + 1
  /\ wpc' = [wpc EXCEPT ![w] = "limit"]
  /\ UNCHANGED <<links, results, mpc, next, wg, writes, probes, limited, noResponse,
                 outOfOrder>>
  /\ UNCHANGED <<crawlVars, pageVars, unitVars>>

\* results[index] = r, in worker w
Store(w, r) ==
  /\ results' = [results EXCEPT ![Slot(w)] = r]
  /\ writes' = [writes EXCEPT ![Slot(w)] = Append(@, w)]
  /\ outOfOrder' = (outOfOrder \/ \E i \in 1..(Slot(w) - 1) : writes[i] = <<>>)

\* a bug that returns on a limiter error without recording it
LimiterErrorDropped(checkURL) == ZeroResult

\* lines 514-518: the result of a URL whose limiter wait failed
LimiterError(checkURL) == LinkResult(checkURL, 0, "rate limiter error", "0s")

\* lines 513-520: limiter.Wait returns an error, the result says so
LimiterFails(w) ==
  /\ wpc[w] = "limit"
  /\ Store(w, LimiterError(links[w]))
  /\ limited' = limited \cup {w}
  /\ wpc' = [wpc EXCEPT ![w] = AfterLimiterError]
  /\ UNCHANGED <<links, mpc, next, semaphore, wg, probes, noResponse>>
  /\ UNCHANGED <<crawlVars, pageVars, unitVars>>

\* line 513: limiter.Wait returns nil, after however long it made the worker wait
LimiterAdmits(w) ==
  /\ wpc[w] = "limit"
  /\ wpc' = [wpc EXCEPT ![w] = "check"]
  /\ UNCHANGED <<links, results, mpc, next, semaphore, wg, writes, probes, limited, noResponse,
                 outOfOrder>>
  /\ UNCHANGED <<crawlVars, pageVars, unitVars>>

\* lines 522-532: the check, its result, and in verbose mode the progress
\* line (the counter it prints is not modelled)
Check(w) ==
  /\ wpc[w] = "check"
  /\ \E head, get \in Outcomes :
       /\ Store(w, checkSingleLink(links[w], head, get))
       /\ noResponse' = IF NoResponse(links[w], head, get)
                        THEN noResponse \cup {w} ELSE noResponse
  /\ probes' = probes \cup {w}
  /\ wpc' = [wpc EXCEPT ![w] = "release"]
  /\ UNCHANGED <<links, mpc, next, semaphore, wg, limited>>
  /\ UNCHANGED <<crawlVars, pageVars, unitVars>>

\* line 510: the deferred receive runs first
Release(w) ==
  /\ wpc[w] = "release"
  /\ semaphore' = semaphore - 1
  /\ wpc' = [wpc EXCEPT ![w] = "wgdone"]
  /\ UNCHANGED <<links, results, mpc, next, wg, writes, probes, limited, noResponse,
                 outOfOrder>>
  /\ UNCHANGED <<crawlVars, pageVars, unitVars>>

\* line 506: the deferred wg.Done runs last
WgDone(w) ==
  /\ wpc[w] = "wgdone"
  /\ wg' = wg - 1
  /\ wpc' = [wpc EXCEPT ![w] = "done"]
  /\ UNCHANGED <<links, results, mpc, next, semaphore, writes, probes, limited, noResponse,
                 outOfOrder>>
  /\ UNCHANGED <<crawlVars, pageVars, unitVars>>

\* lines 536-537
WaitReturn ==
  /\ mpc = "wait"
  /\ wg = 0
  /\ mpc' = "returned"
  /\ UNCHANGED <<links, results, next, wpc, semaphore, wg, writes, probes, limited, noResponse,
                 outOfOrder>>
  /\ UNCHANGED <<crawlVars, pageVars, unitVars>>

CheckIdle ==
  /\ links = <<>>
  /\ results = <<>>
  /\ mpc = "idle"
  /\ next = 1
  /\ wpc = <<>>
  /\ semaphore = 0
  /\ wg = 0
  /\ writes = <<>>
  /\ probes = {}
  /\ limited = {}
  /\ noResponse = {}
  /\ outOfOrder = FALSE

\* ------------------------------------------------------------ strings, URLs
\* In the resolver and the extractor a string is a sequence of tokens, each
\* token a piece of text that holds no '/', '.', '?', '#' or ';' unless it is
\* that character: "/a/b.html" is <<"/", "a", "/", "b", ".", "html">>.
IndexOf(s, t) ==
  LET idx == {i \in 1..Len(s) : s[i] = t} IN
  IF idx = {} THEN 0 ELSE CHOOSE i \in idx : \A j \in idx : i <= j

LastIndexOf(s, t) ==
  LET idx == {i \in 1..Len(s) : s[i] = t} IN
  IF idx = {} THEN 0 ELSE CHOOSE i \in idx : \A j \in idx : i >= j

HasPrefix(s, prefix) == Len(s) >= Len(prefix) /\ SubSeq(s, 1, Len(prefix)) = prefix
HasSuffix(s, suffix) ==
  Len(s) >= Len(suffix) /\ SubSeq(s, Len(s) - Len(suffix) + 1, Len(s)) = suffix
TrimSuffix(s, suffix) ==
  IF HasSuffix(s, suffix) THEN SubSeq(s, 1, Len(s) - Len(suffix)) ELSE s

\* strings.Split(s, "/")
RECURSIVE Split(_)
Split(s) ==
  LET i == IndexOf(s, "/") IN
  IF i = 0 THEN <<s>>
  ELSE <<SubSeq(s, 1, i - 1)>> \o Split(SubSeq(s, i + 1, Len(s)))

\* strings.ToLower, on the tokens that have capitals
ToLower(t) ==
  CASE t = "PDF" -> "pdf"
    [] t = "Application/PDF" -> "application/pdf"
    [] OTHER -> t

Lower(s) == [i \in 1..Len(s) |-> ToLower(s[i])]

\* strings.TrimSpace
RECURSIVE TrimSpace(_)
TrimSpace(s) ==
  IF s # <<>> /\ Head(s) = " " THEN TrimSpace(Tail(s))
  ELSE IF s # <<>> /\ s[Len(s)] = " " THEN TrimSpace(SubSeq(s, 1, Len(s) - 1))
  ELSE s

\* a url.URL value
URL(scheme, opaque, host, path, query, fragment) ==
  [Scheme |-> scheme, Opaque |-> opaque, Host |-> host, Path |-> path,
   RawQuery |-> query, Fragment |-> fragment]

EmptyURL == URL("", <<>>, "", <<>>, <<>>, <<>>)

SchemeTokens == {"http:", "tel:", "mailto:", "javascript:"}
SchemeOf(t) ==
  CASE t = "http:" -> "http"
    [] t = "tel:" -> "tel"
    [] t = "mailto:" -> "mailto"
    [] t = "javascript:" -> "javascript"
SchemeToken(scheme) == CHOOSE t \in SchemeTokens : SchemeOf(t) = scheme
BadEscape == "%zz"

\* url.Parse: the fragment, the scheme, the query, then an opaque part or
\* an authority and a path; an invalid percent-escape is an error
Parse(rawURL) ==
  LET h == IndexOf(rawURL, "#")
      u == IF h = 0 THEN rawURL ELSE SubSeq(rawURL, 1, h - 1)
      frag == IF h = 0 THEN <<>> ELSE SubSeq(rawURL, h + 1, Len(rawURL))
      scheme == IF u # <<>> /\ Head(u) \in SchemeTokens THEN SchemeOf(Head(u)) ELSE ""
      r == IF scheme # "" THEN Tail(u) ELSE u
      q == IndexOf(r, "?")
      rest == IF q = 0 THEN r ELSE SubSeq(r, 1, q - 1)
      query == IF q = 0 THEN <<>> ELSE SubSeq(r, q + 1, Len(r))
      slash == rest # <<>> /\ Head(rest) \in {"/", "//"}
      authority == rest # <<>> /\ Head(rest) = "//"
      host == IF authority /\ Len(rest) >= 2 /\ rest[2] # "/" THEN rest[2] ELSE ""
      path == IF ~authority THEN rest
              ELSE SubSeq(rest, (IF host = "" THEN 2 ELSE 3), Len(rest))
  IN IF scheme # "" /\ ~slash
     THEN [err |-> FALSE, url |-> URL(scheme, rest, "", <<>>, query, frag)]
     ELSE IF BadEscape \in Range(path) \cup Range(frag) \cup {host}
          THEN [err |-> TRUE, url |-> EmptyURL]
          ELSE [err |-> FALSE, url |-> URL(scheme, <<>>, host, path, query, frag)]

\* (*URL).String
String(u) ==
  (IF u.Scheme # "" THEN <<SchemeToken(u.Scheme)>> ELSE <<>>)
  \o (IF u.Opaque # <<>> THEN u.Opaque
      ELSE (IF (u.Scheme # "" \/ u.Host # "") /\ (u.Host # "" \/ u.Path # <<>>)
            THEN <<"//">> ELSE <<>>)
           \o (IF u.Host # "" THEN <<u.Host>> ELSE <<>>)
           \o (IF u.Path # <<>> /\ Head(u.Path) # "/" /\ u.Host # ""
               THEN <<"/">> ELSE <<>>)
           \o u.Path)
  \o (IF u.RawQuery # <<>> THEN <<"?">> \o u.RawQuery ELSE <<>>)
  \o (IF u.Fragment # <<>> THEN <<"#">> \o u.Fragment ELSE <<>>)

\* net/url's resolvePath: merge the reference with the base path, then
\* remove the "." and ".." segments
RECURSIVE RemoveDots(_, _, _)
RemoveDots(elems, dst, first) ==
  IF elems = <<>> THEN dst
  ELSE LET elem == Head(elems) IN
       IF elem = <<".">> THEN RemoveDots(Tail(elems), dst, FALSE)
       ELSE IF elem = <<".", ".">>
       THEN LET str == Tail(dst)
                index == LastIndexOf(str, "/") IN
            IF index = 0 THEN RemoveDots(Tail(elems), <<"/">>, TRUE)
            ELSE RemoveDots(Tail(elems), <<"/">> \o SubSeq(str, 1, index - 1), first)
       ELSE RemoveDots(Tail(elems),
                       dst \o (IF first THEN <<>> ELSE <<"/">>) \o elem, FALSE)

resolvePath(base, ref) ==
  LET full == IF ref = <<>> THEN base
              ELSE IF Head(ref) # "/"
                   THEN SubSeq(base, 1, LastIndexOf(base, "/")) \o ref
                   ELSE ref
      elems == Split(full)
      last == elems[Len(elems)]
      dst == RemoveDots(elems, <<"/">>, TRUE)
      r == IF last \in {<<".">>, <<".", ".">>} THEN dst \o <<"/">> ELSE dst
  IN IF full = <<>> THEN <<>>
     ELSE IF Len(r) > 1 /\ r[2] = "/" THEN Tail(r) ELSE r

\* (*URL).ResolveReference
ResolveReference(u, ref) ==
  LET scheme == IF ref.Scheme = "" THEN u.Scheme ELSE ref.Scheme IN
  IF ref.Scheme # "" \/ ref.Host # ""
  THEN [ref EXCEPT !.Scheme = scheme, !.Path = resolvePath(ref.Path, <<>>)]
  ELSE IF ref.Opaque # <<>>
  THEN [ref EXCEPT !.Scheme = scheme, !.Host = "", !.Path = <<>>]
  ELSE LET inherit == ref.Path = <<>> /\ ref.RawQuery = <<>> IN
       URL(scheme, <<>>, u.Host, resolvePath(u.Path, ref.Path),
           IF inherit THEN u.RawQuery ELSE ref.RawQuery,
           IF inherit /\ ref.Fragment = <<>> THEN u.Fragment ELSE ref.Fragment)

\* --------------------------------------------------------- isFileMimeType
directoryTypes == {"text/plain", "application/json", "application/xml", "text/xml"}

fileTypes ==
  {"application/pdf", "application/msword",
   "application/vnd.openxmlformats-officedocument.wordprocessingml.document",
   "application/vnd.ms-excel",
   "application/vnd.openxmlformats-officedocument.spreadsheetml.sheet",
   "application/vnd.ms-powerpoint",
   "application/vnd.openxmlformats-officedocument.presentationml.presentation",
   "application/rtf",
   "application/zip", "application/x-rar-compressed", "application/x-7z-compressed",
   "application/x-tar", "application/gzip", "application/x-gzip",
   "image/jpeg", "image/png", "image/gif", "image/webp", "image/svg+xml",
   "image/bmp", "image/tiff", "image/x-icon",
   "audio/mpeg", "audio/wav", "audio/ogg", "audio/mp4", "audio/aac", "audio/flac",
   "video/mp4", "video/mpeg", "video/quicktime", "video/x-msvideo", "video/webm",
   "application/javascript", "text/css", "text/csv",
   "font/woff", "font/woff2", "application/font-woff", "application/font-woff2",
   "font/ttf", "font/otf",
   "application/octet-stream"}

\* a classifier that calls nothing a file
NeverFile(mimeType) == FALSE

\* a classifier whose default is file: only the directory table says directory
UnknownIsFile(mimeType) == ~(Len(mimeType) = 1 /\ mimeType[1] \in directoryTypes)

\* a string of several tokens is the key of no entry
isFileMimeType(mimeType) ==
  IF Len(mimeType) = 1 /\ mimeType[1] \in directoryTypes THEN FALSE
  ELSE Len(mimeType) = 1 /\ mimeType[1] \in fileTypes

\* a direct call of the classifier
ClassifyCall(m) ==
  /\ cpc = "idle"
  /\ cpc' = "classified"
  /\ cmime' = m
  /\ isFile' = isFileMimeType(m)
  /\ UNCHANGED <<linkVars, mainVars, againVars>>

\* ------------------------------------------------------ isFileByContentType
\* what the HEAD request of the probe meets
ContentTypes ==
  {<<>>,
   <<"application/pdf">>,
   <<"Application/PDF", ";", " ", "charset=utf-8">>,
   <<"text/html", ";", " ", "charset=utf-8">>,
   <<"application/json">>,
   <<"application/x-custom">>}

NoProbe == [kind |-> "none", status |-> 0, contentType |-> <<>>]
ProbeOutcomes ==
  {[kind |-> k, status |-> 0, contentType |-> <<>>] : k \in {"request", "transport"}}
  \cup {[kind |-> "response", status |-> s, contentType |-> c] :
          s \in Responses400, c \in ContentTypes}

\* a probe that takes every response for an answer
AnyStatus(code) == FALSE

BadStatus(code) == code >= 400

\* strings.Split(contentType, ";")[0], trimmed and lowercased
MimeType(contentType) ==
  LET i == IndexOf(contentType, ";")
      first == IF i = 0 THEN contentType ELSE SubSeq(contentType, 1, i - 1)
  IN TrimSpace(Lower(first))

isFileByContentType(outcome) ==
  IF outcome.kind # "response" THEN [isFile |-> FALSE, err |-> TRUE]
  ELSE IF BadStatus(outcome.status) THEN [isFile |-> FALSE, err |-> TRUE]
  ELSE IF outcome.contentType = <<>> THEN [isFile |-> FALSE, err |-> TRUE]
  ELSE [isFile |-> isFileMimeType(MimeType(outcome.contentType)), err |-> FALSE]

\* -------------------------------------------------------- getResolveBaseURL
fileExtensions ==
  {"html", "htm", "php", "asp", "aspx", "jsp", "js", "css", "xml", "json",
   "txt", "pdf", "doc", "docx", "jpg", "jpeg", "png", "gif", "svg", "ico",
   "zip", "tar", "gz", "mp3", "mp4", "woff", "woff2", "ttf", "otf", "eot"}

\* pathSegments[len(pathSegments)-1]
LastSegment(path) == LET pathSegments == Split(path) IN pathSegments[Len(pathSegments)]

\* lastSegment[dotIndex+1:]
Extension(lastSegment) ==
  SubSeq(lastSegment, LastIndexOf(lastSegment, ".") + 1, Len(lastSegment))

HasFileExtension(u) ==
  LET lastSegment == LastSegment(u.Path)
      extension == Lower(Extension(lastSegment)) IN
  /\ "." \in Range(lastSegment)
  /\ Len(extension) = 1 /\ extension[1] \in fileExtensions

\* a resolver that takes no path for a directory
NeverDirectory(u) == FALSE

AlreadyDirectory(u) == HasSuffix(u.Path, <<"/">>)

\* a copy that keeps the location and drops the rest
PathOnly(u) == [u EXCEPT !.RawQuery = <<>>, !.Fragment = <<>>]

\* newURL := *currentURL
CopyURL(u) == u

\* a resolver that takes a file for a directory
KeepSegment(path) == path \o <<"/">>

\* the path without its last segment, ending in "/"
StripSegment(path) ==
  LET p == TrimSuffix(path, LastSegment(path)) IN
  IF HasSuffix(p, <<"/">>) THEN p ELSE p \o <<"/">>

ParentDirectory(u) == [CopyURL(u) EXCEPT !.Path = StripSegment(u.Path)]

\* a fallback that returns the URL as it came
AsItCame(u) == CopyURL(u)

AsDirectory(u) == [CopyURL(u) EXCEPT !.Path = u.Path \o <<"/">>]

\* lines 264-297: the answers that need no probe
ResolveCall(u) ==
  /\ rin' = u
  /\ IF AlreadyDirectory(u) THEN rout' = u /\ rpc' = "done"
     ELSE IF HasFileExtension(u) THEN rout' = ParentDirectory(u) /\ rpc' = "done"
     ELSE rout' = EmptyURL /\ rpc' = "probe"

PageIdle ==
  /\ xpc = "idle" /\ xop = "none"
  /\ doc = <<>> /\ currentURL = EmptyURL /\ siteBase = EmptyURL
  /\ found = FALSE /\ resolveBaseURL = EmptyURL
  /\ xlinks = <<>> /\ xerr = FALSE
  /\ rpc = "idle" /\ rin = EmptyURL /\ rout = EmptyURL
  /\ heads = <<>> /\ probed = NoProbe

\* a direct call of the resolver
getResolveBaseURL(u) ==
  /\ xpc = "idle"
  /\ xop' = "resolve"
  /\ xpc' = "resolver"
  /\ ResolveCall(u)
  /\ UNCHANGED <<doc, currentURL, siteBase, found, resolveBaseURL, xlinks, xerr,
                 heads, probed>>
  /\ UNCHANGED <<crawlVars, checkVars, unitVars>>

\* lines 299-324: the HEAD request of isFileByContentType and what follows
Probe ==
  /\ rpc = "probe"
  /\ \E outcome \in ProbeOutcomes :
       LET r == isFileByContentType(outcome) IN
       /\ probed' = outcome
       /\ heads' = IF outcome.kind = "request" THEN heads
                   ELSE Append(heads, String(rin))
       /\ rout' = IF ~r.err /\ r.isFile THEN ParentDirectory(rin) ELSE AsDirectory(rin)
  /\ rpc' = "done"
  /\ UNCHANGED <<xpc, xop, doc, currentURL, siteBase, found, resolveBaseURL,
                 xlinks, xerr, rin>>
  /\ UNCHANGED <<crawlVars, checkVars, unitVars>>

\* ------------------------------------------------------ extractLinksFromPage
\* A parsed document is the sequence of its elements in document order, the
\* order in which findBase and extract walk the tree.
Attr(key, val) == [Key |-> key, Val |-> val]
Element(data, attr) == [Data |-> data, Attr |-> attr]

\* the `for _, attr := range n.Attr` loops stop at the first href
HrefIndex(n) ==
  LET idx == {i \in 1..Len(n.Attr) : n.Attr[i].Key = "href"} IN
  IF idx = {} THEN 0 ELSE CHOOSE i \in idx : \A j \in idx : i <= j

Href(n) == n.Attr[HrefIndex(n)].Val

BaseHrefs == {<<"/", "x", "/">>, <<"/", "y", "/">>, <<BadEscape>>}
AnchorHrefs ==
  {<<"c">>, <<"#", "top">>, <<"mailto:", "m">>, <<"javascript:", "m">>,
   <<"http:", "//", "other", "/", "c">>, <<"//", "sub.h", "/", "c">>}

Elements ==
  {Element("base", <<Attr("href", h)>>) : h \in BaseHrefs}
  \cup {Element("a", <<Attr("href", h)>>) : h \in AnchorHrefs}
  \cup {Element("a", <<Attr("name", <<"top">>)>>)}

Docs == UNION {[1..m -> Elements] : m \in 0..MaxElems}

\* lines 185-206: every base element with a parseable href sets the base
RECURSIVE findBase(_, _, _)
findBase(nodes, current, acc) ==
  IF nodes = <<>> THEN acc
  ELSE LET n == Head(nodes) IN
       IF n.Data = "base" /\ HrefIndex(n) # 0 /\ ~Parse(Href(n)).err
       THEN findBase(Tail(nodes), current,
                     [found |-> TRUE,
                      url |-> ResolveReference(current, Parse(Href(n)).url)])
       ELSE findBase(Tail(nodes), current, acc)

\* lines 247-258
resolveURL(href, baseURL) ==
  IF \/ href = <<>>
     \/ HasPrefix(href, <<"#">>)
     \/ HasPrefix(href, <<"javascript:">>)
     \/ HasPrefix(href, <<"mailto:">>)
  THEN <<>>
  ELSE IF Parse(href).err THEN <<>>
  ELSE String(ResolveReference(baseURL, Parse(href).url))

\* a filter that lets every host through
AnyHost(linkURL, baseURL) == TRUE

HostMatches(linkURL, baseURL) == linkURL.Host = baseURL.Host

\* lines 218-242
RECURSIVE extract(_, _, _)
extract(nodes, resolveBase, baseURL) ==
  IF nodes = <<>> THEN <<>>
  ELSE LET n == Head(nodes)
           absoluteURL == IF n.Data = "a" /\ HrefIndex(n) # 0
                          THEN resolveURL(Href(n), resolveBase) ELSE <<>>
           linkURL == Parse(absoluteURL)
           keep == /\ absoluteURL # <<>>
                   /\ ~linkURL.err
                   /\ HostMatches(linkURL.url, baseURL)
       IN (IF keep THEN <<absoluteURL>> ELSE <<>>)
          \o extract(Tail(nodes), resolveBase, baseURL)

\* a page that asks the resolver whatever the document says
AlwaysHeuristic(baseFound) == TRUE

\* line 211: resolveBaseURL is still the currentURL pointer
NeedsHeuristic(baseFound) == ~baseFound

CurrentURLs ==
  {Parse(<<"http:", "//", "h", "/", "a", "/", "b">>).url,
   Parse(<<"http:", "//", "h", "/", "a", "/", "b", ".", "html">>).url,
   Parse(<<"http:", "//", "h", "/", "a", "/">>).url}
SiteBases ==
  {Parse(<<"http:", "//", "h", "/">>).url, Parse(<<"http:", "//", "sub.h", "/">>).url}

\* lines 163-182: the page cannot be fetched or read
ExtractFails(current, baseURL) ==
  /\ xpc = "idle"
  /\ xop' = "extract"
  /\ currentURL' = current
  /\ siteBase' = baseURL
  /\ xerr' = TRUE
  /\ xpc' = "done"
  /\ UNCHANGED <<doc, found, resolveBaseURL, xlinks, rpc, rin, rout, heads, probed>>
  /\ UNCHANGED <<crawlVars, checkVars, unitVars>>

\* lines 163-212: fetch, parse, findBase, and the resolver up to its probe
ExtractCall(document, current, baseURL) ==
  /\ xpc = "idle"
  /\ xop' = "extract"
  /\ currentURL' = current
  /\ siteBase' = baseURL
  /\ doc' = document
  /\ LET b == findBase(document, current, [found |-> FALSE, url |-> current]) IN
       /\ found' = b.found
       /\ resolveBaseURL' = b.url
       /\ IF NeedsHeuristic(b.found) THEN ResolveCall(current)
          ELSE UNCHANGED <<rpc, rin, rout>>
  /\ xpc' = "links"
  /\ UNCHANGED <<xlinks, xerr, heads, probed>>
  /\ UNCHANGED <<crawlVars, checkVars, unitVars>>

\* lines 212-243: the resolver's answer, if it was asked, and the anchors
ExtractLinks ==
  /\ xpc = "links"
  /\ rpc # "probe"
  /\ LET base == IF rpc = "done" THEN rout ELSE resolveBaseURL IN
       /\ resolveBaseURL' = base
       /\ xlinks' = extract(doc, base, siteBase)
  /\ xpc' = "done"
  /\ UNCHANGED <<xop, doc, currentURL, siteBase, found, xerr, rpc, rin, rout,
                 heads, probed>>
  /\ UNCHANGED <<crawlVars, checkVars, unitVars>>

\* ------------------------------------------------------------ specification

\* no single function has been called
UnitIdle ==
  /\ cpc = "idle" /\ cmime = <<>> /\ isFile = FALSE
  /\ lpc = "idle" /\ lurl = NoURL /\ methods = <<>>
  /\ lhead = -1 /\ lget = -1 /\ lresult = ZeroResult
  /\ apc = "idle" /\ failOnError = FALSE /\ brokenLinks = <<>> /\ exitCode = -1
  /\ again = FALSE /\ firstOut = EmptyURL /\ firstHeads = <<>>

InitSite(anchors) ==
  /\ config \in [ExcludePatterns : SUBSET Patterns, MaxConcurrent : {1}]
  /\ site = [u \in SiteURLs |-> UnknownPage]
  /\ known = {}
  /\ budget = anchors
  /\ pc = "idle"
  /\ op = "none"
  /\ seed = BadURL
  /\ maxDepth = 0
  /\ visited = {}
  /\ urls = <<>>
  /\ err = FALSE
  /\ stack = <<>>
  /\ depths = <<>>
  /\ fetchLog = <<>>
  /\ locs = <<>>
  /\ prev = NoCall
  /\ CheckIdle
  /\ PageIdle
  /\ UnitIdle

Seeds == {MkURL("site", 1, e) : e \in Exts} \cup {BadURL}

CallCrawl == \E s \in Seeds, d \in (-1)..MaxDepthBound : CrawlWebsite(s, d)

CrawlStep == CrawlEnter \/ CrawlExtract \/ CrawlLoop

NextCrawl == CallCrawl \/ GetURLsFromSitemap \/ CrawlStep

SpecCrawl == InitSite(MaxAnchors) /\ [][NextCrawl]_vars

NextSite == CallCrawl \/ CrawlStep \/ SiteContent

SpecSite == InitSite(MaxAnchors) /\ [][NextSite]_vars

NextRecrawl == CallCrawl \/ CrawlStep \/ Recrawl

SpecRecrawl == InitSite(RecrawlAnchors) /\ [][NextRecrawl]_vars

InitCheck ==
  /\ config \in [ExcludePatterns : {{}}, MaxConcurrent : 0..MaxConcBound]
  /\ site = [u \in SiteURLs |-> UnknownPage]
  /\ known = {}
  /\ budget = MaxAnchors
  /\ pc = "idle"
  /\ op = "none"
  /\ seed = BadURL
  /\ maxDepth = 0
  /\ visited = {}
  /\ urls = <<>>
  /\ err = FALSE
  /\ stack = <<>>
  /\ depths = <<>>
  /\ fetchLog = <<>>
  /\ locs = <<>>
  /\ prev = NoCall
  /\ CheckIdle
  /\ PageIdle
  /\ UnitIdle

CallCheck == \E list \in UNION {[1..m -> CheckURLs] : m \in 0..MaxURLs} : CheckLinks(list)

DoAcquire == \E w \in Workers : Acquire(w)
DoLimiterFails == \E w \in Workers : LimiterFails(w)
DoLimiterAdmits == \E w \in Workers : LimiterAdmits(w)
DoCheck == \E w \in Workers : Check(w)
DoRelease == \E w \in Workers : Release(w)
DoWgDone == \E w \in Workers : WgDone(w)

NextCheck ==
  \/ CallCheck \/ Spawn \/ WaitReturn
  \/ DoAcquire \/ DoLimiterFails \/ DoLimiterAdmits \/ DoCheck
  \/ DoRelease \/ DoWgDone

SpecCheck == InitCheck /\ [][NextCheck]_vars

\* paths of the URLs the resolver is called with directly
PathTokens == {"/", ".", "a", "html", "PDF", "xyz"}
Paths ==
  {p \in UNION {[1..m -> PathTokens] : m \in 0..MaxPathLen} : p = <<>> \/ p[1] = "/"}
ResolveInputs ==
  {URL("http", <<>>, "h", p, q, f) :
     p \in Paths, q \in {<<>>, <<"q=1">>}, f \in {<<>>, <<"top">>}}

InitPage == InitSite(MaxAnchors) /\ config.ExcludePatterns = {}

CallResolve == \E u \in ResolveInputs : getResolveBaseURL(u)

NextResolve == CallResolve \/ Probe

SpecResolve == InitPage /\ [][NextResolve]_vars

CallExtractFails == \E current \in CurrentURLs, baseURL \in SiteBases : ExtractFails(current, baseURL)

CallExtract ==
  \E document \in Docs, current \in CurrentURLs, baseURL \in SiteBases :
    ExtractCall(document, current, baseURL)

NextExtract == CallExtractFails \/ CallExtract \/ Probe \/ ExtractLinks

SpecExtract == InitPage /\ [][NextExtract]_vars

\* ------------------------------------------------- calls of single functions
\* the strings the classifier is called with: every key of its two tables,
\* other types, and strings of several tokens
MimeInputs ==
  {<<t>> : t \in fileTypes \cup directoryTypes
                 \cup {"text/html", "application/xhtml+xml", "unknown/type",
                       "Application/PDF"}}
  \cup UNION {[1..m -> {"application/pdf", "text/plain", "unknown/type", ";", " "}] :
               m \in 0..MaxMimeLen}

Classify ==
  /\ \E m \in MimeInputs : ClassifyCall(m)
  /\ UNCHANGED <<crawlVars, checkVars, pageVars>>

SpecMime == InitPage /\ [][Classify]_vars

\* ------------------------------------------------------------------- main
\* a count that takes every result with an error string for a broken link
HasError(result) == result.Error # ""

\* line 331 of main
IsBroken(result) == result.StatusCode >= 400

\* the flags and the environment are read
MainStart ==
  /\ apc = "idle" /\ mpc = "idle"
  /\ failOnError' \in BOOLEAN
  /\ apc' = "urls"
  /\ UNCHANGED <<brokenLinks, exitCode>>
  /\ UNCHANGED <<mimeVars, linkVars, againVars>>
  /\ UNCHANGED <<crawlVars, checkVars, pageVars>>

\* the sitemap or the crawl gave the URLs, and CheckLinks is called with them
MainCheck ==
  /\ apc = "urls"
  /\ \E list \in UNION {[1..m -> CheckURLs] : m \in 0..LiveURLs} : CheckLinks(list)

\* CheckLinks returned: the broken links are collected and reported, and
\* the process exits
Report ==
  /\ apc = "urls" /\ mpc = "returned"
  /\ brokenLinks' = SelectSeq(results, IsBroken)
  /\ exitCode' = IF Len(brokenLinks') > 0 /\ failOnError THEN 1 ELSE 0
  /\ apc' = "exited"
  /\ UNCHANGED failOnError
  /\ UNCHANGED <<mimeVars, linkVars, againVars>>
  /\ UNCHANGED <<crawlVars, checkVars, pageVars>>

NextMain ==
  \/ MainStart \/ MainCheck \/ Report
  \/ Spawn \/ WaitReturn
  \/ DoAcquire \/ DoLimiterFails \/ DoLimiterAdmits \/ DoCheck
  \/ DoRelease \/ DoWgDone

SpecMain == InitCheck /\ [][NextMain]_vars

\* the caller hands the resolver its own result
Reapply ==
  /\ xop = "resolve" /\ rpc = "done" /\ ~again
  /\ again' = TRUE
  /\ firstOut' = rout
  /\ firstHeads' = heads
  /\ ResolveCall(rout)
  /\ UNCHANGED <<xpc, xop, doc, currentURL, siteBase, found, resolveBaseURL, xlinks,
                 xerr, heads, probed>>
  /\ UNCHANGED <<mimeVars, linkVars, mainVars>>
  /\ UNCHANGED <<crawlVars, checkVars>>

NextReapply == CallResolve \/ Probe \/ Reapply

SpecReapply == InitPage /\ [][NextReapply]_vars

\* the URLs checkSingleLink is called with directly
LinkURLs == {MkURL("site", n, e) : n \in 1..MaxLinkURLs, e \in Exts} \cup {External, BadURL}

CallLink ==
  /\ \E checkURL \in LinkURLs : LinkCall(checkURL)
  /\ UNCHANGED <<crawlVars, checkVars, pageVars>>

NextLinkCheck == CallLink \/ LinkHead \/ LinkGet

SpecLink == InitPage /\ [][NextLinkCheck]_vars

\* the Go scheduler runs every goroutine that can take a step, and the
\* limiter's wait ends (tokens are refilled at a positive rate)
CallLiveCheck ==
  \E list \in UNION {[1..m -> CheckURLs] : m \in 0..LiveURLs} : CheckLinks(list)

NextLiveCheck ==
  \/ CallLiveCheck \/ Spawn \/ WaitReturn
  \/ DoAcquire \/ DoLimiterFails \/ DoLimiterAdmits \/ DoCheck
  \/ DoRelease \/ DoWgDone

LiveCheck == InitCheck /\ [][NextLiveCheck]_vars /\ WF_vars(NextLiveCheck)

\* the crawl is one sequential call: while it runs, its next step is taken
LiveCrawl == InitSite(LiveAnchors) /\ [][NextCrawl]_vars /\ WF_vars(CrawlStep)

\* ------------------------------------------------------------------ claims
Fetched == Range(fetchLog)
Result == Range(urls)
Links(u) == IF site[u].status = "ok" THEN Range(extractLinksFromPage(site[u], seed)) ELSE {}
CrawlDone == pc = "done" /\ op = "crawl"
MatchesPattern(u) == \E pattern \in config.ExcludePatterns : MatchString(pattern, u)

\* C1: on every finite site (cycles and self-links included) and for every
\* maxDepth, a running CrawlWebsite call eventually returns.
CrawlTerminates == (pc = "run") ~> (pc = "done")

\* a crawl returned after fetching two pages that link to each other
CycleCrawled ==
  /\ CrawlDone
  /\ \E u, v \in Fetched : u # v /\ v \in Links(u) /\ u \in Links(v)

\* C2: the result of CrawlWebsite never holds the same URL twice.
NoDuplicates ==
  op = "crawl" => \A i, j \in 1..Len(urls) : urls[i] = urls[j] => i = j

\* a crawl returned from a site where one page repeats a link and another
\* page links back to a recorded page
RepeatedLinkCrawled ==
  /\ CrawlDone /\ Len(urls) >= 2
  /\ \E u \in Fetched : \E i, j \in 1..Len(site[u].anchors) :
        i # j /\ site[u].anchors[i] = site[u].anchors[j] /\ site[u].anchors[i] \in Result

\* C3: with every page fetched successfully and no exclude pattern, the crawl
\* reports every URL within maxDepth same-host links of the seed.
RECURSIVE ReachWithin(_)
ReachWithin(k) ==
  IF k = 0 THEN {seed}
  ELSE LET R == ReachWithin(k - 1) IN R \cup UNION {Links(u) : u \in R}

CrawlFindsAllReachable ==
  (/\ CrawlDone /\ ~err /\ maxDepth >= 0
   /\ config.ExcludePatterns = {}
   /\ \A u \in SiteURLs : site[u].status # "fail"
   /\ FirstUnknown = 0)
  => ReachWithin(maxDepth) \subseteq Result

\* C4: a crawl one level deeper from the same seed returns a superset.
DeeperCrawlIsSuperset ==
  (pc = "done" /\ prev # NoCall) => Range(prev.urls) \subseteq Result

\* C5: every URL is recorded at a depth in 0..maxDepth, a page recorded at
\* depth maxDepth is never fetched, and maxDepth 0 yields [seed] with no fetch.
DepthBounded ==
  op = "crawl" =>
    /\ \A i \in 1..Len(urls) : 0 <= depths[i] /\ depths[i] <= maxDepth
    /\ \A i \in 1..Len(urls) : urls[i] \in Fetched => depths[i] < maxDepth
    /\ (pc = "done" /\ ParseOK(seed) /\ maxDepth = 0) => (urls = <<seed>> /\ fetchLog = <<>>)

\* a crawl returned with a page recorded at depth maxDepth > 0, not fetched
LeafRecorded ==
  /\ CrawlDone /\ maxDepth >= 1
  /\ \E i \in 1..Len(urls) : depths[i] = maxDepth /\ urls[i] \notin Fetched

\* C6: for a parseable seed and maxDepth >= 0 the result starts with the
\* seed, also when the seed page cannot be fetched.
SeedFirst ==
  /\ (op = "crawl" /\ urls # <<>>) => urls[1] = seed
  /\ (CrawlDone /\ ParseOK(seed) /\ maxDepth >= 0) => (urls # <<>> /\ urls[1] = seed)

\* a crawl returned [seed] after the fetch of the seed page failed
SeedFetchFailed ==
  /\ CrawlDone /\ maxDepth >= 1
  /\ seed \in Fetched /\ site[seed].status = "fail" /\ urls = <<seed>>

\* C7 as claimed: no URL of a result matches an exclude pattern.
ExcludedNeverInResult == \A i \in 1..Len(urls) : ~MatchesPattern(urls[i])

\* C7, amended: a URL that matches an exclude pattern is in no sitemap result,
\* and in a crawl result only as the seed itself, at the first position.
ExcludedOnlyAsSeed ==
  \A i \in 1..Len(urls) :
    MatchesPattern(urls[i]) => (op = "crawl" /\ i = 1 /\ urls[i] = seed)

\* a crawl returned without a same-host link that a fetched page shows and
\* that matches the configured pattern
ExcludedLinkSkipped ==
  /\ CrawlDone /\ ~MatchesPattern(seed)
  /\ \E u \in Fetched : \E l \in Links(u) : MatchesPattern(l) /\ l \notin Result

\* C8: CrawlWebsite fails exactly when the seed does not parse; a page that
\* cannot be fetched prunes only its own children: every link of every
\* successfully fetched page that no pattern excludes is in the result.
OnlySeedParseFails ==
  CrawlDone =>
    /\ err <=> ~ParseOK(seed)
    /\ \A u \in Fetched : \A l \in Links(u) : ~MatchesPattern(l) => l \in Result

\* a crawl returned without error after one fetch failed and a later fetch
\* of another page found a link
FailureThenProgress ==
  /\ CrawlDone /\ ~err
  /\ \E i, j \in 1..Len(fetchLog) :
        i < j /\ site[fetchLog[i]].status = "fail" /\ Links(fetchLog[j]) # {}
\* C9: CheckLinks returns one result per URL, result i for urls[i], whatever
\* the order in which the workers finish; every slot is written by its own
\* worker, once, before CheckLinks returns.
ResultsFollowInput ==
  /\ mpc # "idle" =>
       /\ Len(results) = Len(links)
       /\ \A i \in Workers : Len(writes[i]) <= 1 /\ (writes[i] # <<>> => writes[i] = <<i>>)
  /\ mpc = "returned" =>
       \A i \in Workers : results[i].URL = links[i] /\ writes[i] = <<i>>

\* CheckLinks returned the results of three URLs that finished out of order
ReturnedOutOfOrder == mpc = "returned" /\ Len(links) >= 3 /\ outOfOrder

\* C10: with MaxConcurrent >= 1 at most MaxConcurrent workers hold a slot of
\* the semaphore, the semaphore holds one element per such worker (a slot is
\* given back exactly once, also after a limiter error), and none is held
\* when CheckLinks returns.
AdmissionBounded ==
  (mpc # "idle" /\ config.MaxConcurrent >= 1) =>
    /\ Cardinality(Holders) <= config.MaxConcurrent
    /\ semaphore = Cardinality(Holders)
    /\ mpc = "returned" => (semaphore = 0 /\ Holders = {})

\* the gate is full and holds a worker back, after another worker gave its
\* slot back on the limiter-failure path
GateFullAfterFailure ==
  /\ config.MaxConcurrent >= 1
  /\ Cardinality(Holders) = config.MaxConcurrent
  /\ \E w \in Workers : wpc[w] = "acquire"
  /\ \E v \in Workers : wpc[v] \in {"wgdone", "done"} /\ results[v].Error = "rate limiter error"

\* C11: a limiter failure for one URL is recorded in that URL's own slot
\* (its URL, status 0, a non-empty error) and no HTTP check is made for it;
\* every other URL is checked and has its own result when CheckLinks
\* returns, and after a limiter failure CheckLinks does return.
LimiterFailureIsLocal ==
  /\ [](\A w \in limited :
          /\ w \notin probes
          /\ writes[w] = <<w>>
          /\ results[w].URL = links[w]
          /\ results[w].StatusCode = 0
          /\ results[w].Error # "")
  /\ [](mpc = "returned" =>
          \A v \in Workers \ limited :
            v \in probes /\ writes[v] = <<v>> /\ results[v].URL = links[v])
  /\ ((limited # {}) ~> (mpc = "returned"))

\* CheckLinks returned after the limiter failed for one URL and another URL
\* was checked and answered 200
LimiterFailedForOne ==
  /\ mpc = "returned"
  /\ \E w \in limited : \E v \in probes : v # w /\ results[v].StatusCode = 200

\* C12: a check that obtains no response (malformed URL, or HEAD and GET
\* both fail) yields status 0 and a non-empty error for its own URL, and
\* every URL of the batch has its own result when CheckLinks returns.
NoResponseIsAResult ==
  /\ \A w \in noResponse :
        /\ results[w].URL = links[w]
        /\ results[w].StatusCode = 0
        /\ results[w].Error # ""
  /\ mpc = "returned" =>
        \A v \in Workers : writes[v] = <<v>> /\ results[v].URL = links[v]

\* CheckLinks returned after a malformed URL and a URL whose requests both
\* failed, with a later URL answered
BatchSurvivesFailures ==
  /\ mpc = "returned"
  /\ \E w, x, v \in Workers :
        /\ w \in noResponse /\ ~ParseOK(links[w])
        /\ x \in noResponse /\ ParseOK(links[x])
        /\ w < v /\ results[v].StatusCode = 200

EndsInSlash(path) == path # <<>> /\ path[Len(path)] = "/"
ProbeAnswered ==
  probed.kind = "response" /\ probed.status < 400 /\ probed.contentType # <<>>

\* parent is path without its last segment, and ends in "/"
IsParentOf(parent, path) ==
  /\ EndsInSlash(parent)
  /\ IF "/" \in Range(path) THEN parent \o LastSegment(path) = path
     ELSE parent = <<"/">>

\* the last segment ends in a dot and an extension of the fixed set, in
\* lower or in upper case
RecognizedExtension(path) ==
  LET last == LastSegment(path)
      ext == Extension(last) IN
  /\ "." \in Range(last)
  /\ Len(ext) = 1
  /\ (ext[1] \in fileExtensions \/ \E e \in fileExtensions : ext[1] # e /\ ToLower(ext[1]) = e)

ProbeDecides ==
  (rpc = "done" /\ ~EndsInSlash(rin.Path) /\ ~RecognizedExtension(rin.Path)) =>
    /\ heads \in {<<>>, <<String(rin)>>}
    /\ ProbeAnswered =>
         LET mime == MimeType(probed.contentType) IN
         /\ heads = <<String(rin)>>
         /\ mime = <<"application/pdf">> => IsParentOf(rout.Path, rin.Path)
         /\ mime \in {<<"text/html">>, <<"application/json">>} =>
              rout.Path = rin.Path \o <<"/">>
         /\ IF Len(mime) = 1 /\ mime[1] \in fileTypes \ directoryTypes
            THEN IsParentOf(rout.Path, rin.Path)
            ELSE rout.Path = rin.Path \o <<"/">>

\* the probe of a URL with an unrecognized extension was answered with
\* "Application/PDF; charset=utf-8" and the resolver returned the parent
ProbeSaidFile ==
  /\ rpc = "done" /\ ProbeAnswered
  /\ Extension(LastSegment(rin.Path)) = <<"xyz">>
  /\ probed.contentType = <<"Application/PDF", ";", " ", "charset=utf-8">>
  /\ rout.Path # rin.Path \o <<"/">>

\* C15: the resolver returns no error, and when its probe fails (no request,
\* no response, a status >= 400, no Content-Type) it returns the input URL
\* with "/" appended to the path.
ProbeFailureFallsBack ==
  /\ xop = "resolve" => ~xerr
  /\ (rpc = "done" /\ probed # NoProbe /\ ~ProbeAnswered) =>
       rout = [rin EXCEPT !.Path = rin.Path \o <<"/">>]

\* a probe was answered 404 with a file type and the resolver fell back
ProbeRefused ==
  /\ rpc = "done"
  /\ probed.kind = "response" /\ probed.status >= 400
  /\ probed.contentType = <<"application/pdf">>
  /\ rin.Path # <<>>
  /\ rout.Path = rin.Path \o <<"/">>

\* C16: a URL whose path ends in "/" is returned unchanged, without a probe.
TrailingSlashUnchanged ==
  (rpc # "idle" /\ EndsInSlash(rin.Path)) =>
    /\ rpc = "done"
    /\ rout = rin
    /\ heads = <<>> /\ probed = NoProbe

\* the resolver answered for a directory below the root, with a query
DirectoryResolved ==
  /\ xop = "resolve" /\ rpc = "done"
  /\ EndsInSlash(rin.Path) /\ Len(rin.Path) >= 3
  /\ rin.RawQuery # <<>>

\* C17: on every return path the result has the scheme, host, query and
\* fragment of the input; only the path can differ.
OnlyPathChanges ==
  rpc = "done" =>
    /\ rout.Scheme = rin.Scheme
    /\ rout.Opaque = rin.Opaque
    /\ rout.Host = rin.Host
    /\ rout.RawQuery = rin.RawQuery
    /\ rout.Fragment = rin.Fragment

\* the resolver turned the path of a URL with a query and a fragment into
\* its parent after a probe
PathChangedQueryKept ==
  /\ rpc = "done" /\ ProbeAnswered
  /\ rin.RawQuery # <<>> /\ rin.Fragment # <<>>
  /\ rout.Path # rin.Path /\ rout.Path # rin.Path \o <<"/">>

IsBase(n) == n.Data = "base" /\ HrefIndex(n) # 0 /\ ~Parse(Href(n)).err
ParseableBases(d) == {i \in 1..Len(d) : IsBase(d[i])}
BaseOf(i) == ResolveReference(currentURL, Parse(Href(doc[i])).url)
Extracted == xop = "extract" /\ xpc \in {"links", "done"} /\ ~xerr

\* C18: when the page has a base element with a parseable href, the base is
\* such an href resolved against the page URL, the resolver is not invoked
\* and no HEAD probe is sent; base "/x/" on http://h/a/b makes "c" resolve
\* to http://h/x/c.
BaseTagTakesPrecedence ==
  (Extracted /\ ParseableBases(doc) # {}) =>
    /\ rpc = "idle" /\ heads = <<>> /\ probed = NoProbe
    /\ resolveBaseURL \in {BaseOf(i) : i \in ParseableBases(doc)}
    /\ (/\ xpc = "done"
        /\ String(currentURL) = <<"http:", "//", "h", "/", "a", "/", "b">>
        /\ siteBase.Host = "h"
        /\ \A i \in ParseableBases(doc) : Href(doc[i]) = <<"/", "x", "/">>
        /\ \E i \in 1..Len(doc) :
             doc[i].Data = "a" /\ HrefIndex(doc[i]) # 0 /\ Href(doc[i]) = <<"c">>)
       => (/\ String(resolveBaseURL) = <<"http:", "//", "h", "/", "x", "/">>
           /\ <<"http:", "//", "h", "/", "x", "/", "c">> \in Range(xlinks))

\* a page whose URL needs a probe has a base element, and its relative
\* link came back resolved against the base
BaseTagUsed ==
  /\ Extracted /\ xpc = "done"
  /\ String(currentURL) = <<"http:", "//", "h", "/", "a", "/", "b">>
  /\ ParseableBases(doc) # {}
  /\ xlinks = << <<"http:", "//", "h", "/", "x", "/", "c">> >>

\* C19: with several base elements that have a parseable href, the first in
\* document order gives the base.
FirstBaseWins ==
  (Extracted /\ ParseableBases(doc) # {}) =>
    resolveBaseURL = BaseOf(CHOOSE i \in ParseableBases(doc) :
                              \A j \in ParseableBases(doc) : i <= j)

FilteredHref(href) ==
  href = <<>> \/ Head(href) \in {"#", "mailto:", "javascript:"}
Candidates(d) ==
  {i \in 1..Len(d) :
     d[i].Data = "a" /\ HrefIndex(d[i]) # 0 /\ ~FilteredHref(Href(d[i]))}

\* C20: every returned link parses and has exactly the host of the site
\* base URL; fragment-only, mailto: and javascript: hrefs yield no link.
SameHostOnly ==
  (Extracted /\ xpc = "done") =>
    /\ \A i \in 1..Len(xlinks) :
         /\ ~Parse(xlinks[i]).err
         /\ Parse(xlinks[i]).url.Host = siteBase.Host
         /\ Parse(xlinks[i]).url.Scheme \notin {"mailto", "javascript"}
    /\ Len(xlinks) <= Cardinality(Candidates(doc))

\* a page with a link to another host or a filtered href next to a link to
\* the site's host returned only the latter
ForeignLinkDropped ==
  /\ Extracted /\ xpc = "done"
  /\ Len(doc) = 2 /\ Len(xlinks) = 1
  /\ \A i \in 1..2 : doc[i].Data = "a" /\ HrefIndex(doc[i]) # 0
  /\ \E i \in 1..2 : Href(doc[i]) = <<"http:", "//", "other", "/", "c">>

\* the file list, by the kinds of content it names
Documents ==
  {"application/pdf", "application/msword", "application/rtf",
   "application/vnd.ms-excel", "application/vnd.ms-powerpoint",
   "application/vnd.openxmlformats-officedocument.wordprocessingml.document",
   "application/vnd.openxmlformats-officedocument.spreadsheetml.sheet",
   "application/vnd.openxmlformats-officedocument.presentationml.presentation"}
Archives ==
  {"application/zip", "application/x-rar-compressed", "application/x-7z-compressed",
   "application/x-tar", "application/gzip", "application/x-gzip"}
Images ==
  {"image/jpeg", "image/png", "image/gif", "image/webp", "image/svg+xml",
   "image/bmp", "image/tiff", "image/x-icon"}
Audio == {"audio/mpeg", "audio/wav", "audio/ogg", "audio/mp4", "audio/aac", "audio/flac"}
Video ==
  {"video/mp4", "video/mpeg", "video/quicktime", "video/x-msvideo", "video/webm"}
Fonts ==
  {"font/woff", "font/woff2", "font/ttf", "font/otf",
   "application/font-woff", "application/font-woff2"}
WebAssets == {"application/javascript", "text/css", "text/csv"}
FileList ==
  Documents \cup Archives \cup Images \cup Audio \cup Video \cup Fonts
  \cup WebAssets \cup {"application/octet-stream"}

\* C21: the MIME classifier answers every string, without a request and
\* from the string alone: file exactly for the strings of its file list,
\* directory for every other one, the empty string and the types it does
\* not know included.
ClassifierFollowsFileList ==
  cpc = "classified" =>
    /\ isFile \in BOOLEAN
    /\ isFile <=> (\E t \in FileList : cmime = <<t>>)
    /\ cmime = <<>> => ~isFile
    /\ cmime \in {<<"unknown/type">>, <<"text/html">>, <<"application/json">>} => ~isFile
    /\ cmime \in {<<"application/pdf">>, <<"font/woff">>, <<"text/css">>} => isFile
    /\ heads = <<>> /\ probed = NoProbe

\* an unrecognized type was classified
UnknownTypeClassified ==
  cpc = "classified" /\ cmime = <<"unknown/type">> /\ ~isFile

SitemapRead == op = "sitemap" /\ pc = "done" /\ ~err
\* the positions of the entries that match no pattern, and the k-th of them
KeptLocs == {i \in 1..Len(locs) : ~MatchesPattern(locs[i])}
NthKept(k) == CHOOSE i \in KeptLocs : Cardinality({j \in KeptLocs : j <= i}) = k

\* C22: a sitemap that was read yields its <loc> entries that match no
\* exclude pattern, each as it stands and in document order: the k-th URL of
\* the result is the k-th such entry, whether it is malformed, empty or a
\* repetition of an earlier one.
SitemapIsFilteredCopy ==
  SitemapRead =>
    /\ Len(urls) = Cardinality(KeptLocs)
    /\ \A k \in 1..Len(urls) : urls[k] = locs[NthKept(k)]

\* a sitemap with a malformed entry twice, an empty entry and an excluded one
SitemapKeptOddEntries ==
  /\ SitemapRead
  /\ config.ExcludePatterns # {}
  /\ locs = <<BadURL, MkURL("site", 1, "pdf"), BadURL, EmptyLoc>>
  /\ urls = <<BadURL, BadURL, EmptyLoc>>

NoBaseElement == \A i \in 1..Len(doc) : doc[i].Data # "base"

\* C23: for a page without a base element, a HEAD request is made and the
\* Content-Type of its answer decides: a directory-like type makes the page
\* URL a directory, a file-like type makes its parent the base; the
\* extension of the URL is looked at only when the HEAD request gave no
\* answer.
ContentTypeDecidesFirst ==
  (Extracted /\ xpc = "done" /\ NoBaseElement /\ ~EndsInSlash(currentURL.Path)) =>
    /\ probed # NoProbe
    /\ ProbeAnswered =>
         IF MimeType(probed.contentType) \in {<<t>> : t \in FileList}
         THEN IsParentOf(resolveBaseURL.Path, currentURL.Path)
         ELSE resolveBaseURL.Path = currentURL.Path \o <<"/">>

\* C24: while a crawl runs, the visited set and the result hold the same
\* URLs; the URL of every call that is about to fetch its page or is walking
\* its links is already in both, and so is every page that was fetched; no
\* page is fetched twice in one crawl.
MarkedBeforeFetch ==
  op = "crawl" =>
    /\ visited = Range(urls)
    /\ \A k \in 1..Len(stack) :
         stack[k].at \in {"extract", "loop"} => stack[k].url \in visited
    /\ \A i \in 1..Len(fetchLog) : fetchLog[i] \in visited
    /\ \A i, j \in 1..Len(fetchLog) : fetchLog[i] = fetchLog[j] => i = j

\* a crawl returned after a page it fetched showed a link to a page fetched
\* before it
FetchedPageLinkedAgain ==
  /\ CrawlDone /\ Len(fetchLog) >= 2
  /\ \E i, j \in 1..Len(fetchLog) : i < j /\ fetchLog[i] \in Links(fetchLog[j])

\* C25: the exclude patterns are applied to the links found on the pages
\* and not to the seed: a seed that parses is the first URL of the result
\* even when it matches a pattern, and its page is fetched when maxDepth
\* lets any page be fetched; no other URL that matches a pattern is recorded
\* or fetched.
SeedNotFiltered ==
  (CrawlDone /\ ParseOK(seed) /\ maxDepth >= 0) =>
    /\ urls # <<>> /\ urls[1] = seed
    /\ maxDepth >= 1 => (fetchLog # <<>> /\ fetchLog[1] = seed)
    /\ \A i \in 2..Len(urls) : ~MatchesPattern(urls[i])
    /\ \A i \in 2..Len(fetchLog) : ~MatchesPattern(fetchLog[i])

\* a crawl from a seed that matches the pattern fetched the seed's page and
\* went on to a link it found there
ExcludedSeedCrawled ==
  /\ CrawlDone /\ MatchesPattern(seed)
  /\ fetchLog # <<>> /\ fetchLog[1] = seed
  /\ Len(urls) >= 2

\* C28: a CrawlWebsite call with a negative maxDepth and a seed that parses
\* records nothing and fetches nothing, and returns the empty result
\* without an error.
NegativeDepthRecordsNothing ==
  (op = "crawl" /\ ParseOK(seed) /\ maxDepth < 0) =>
    /\ urls = <<>> /\ visited = {} /\ fetchLog = <<>>
    /\ ~err
    /\ pc = "done" => stack = <<>>

\* a crawl with maxDepth -1 from a seed that parses has returned
NegativeDepthReturned ==
  CrawlDone /\ maxDepth = -1 /\ ParseOK(seed) /\ seed \in known

HeadIsFinal ==
  /\ methods \in {<<>>, <<"HEAD">>, <<"HEAD", "GET">>}
  /\ "GET" \in Range(methods) => lhead = 0
  /\ lpc = "done" =>
       /\ ~ParseOK(lurl) => methods = <<>> /\ lresult.StatusCode = 0
       /\ (ParseOK(lurl) /\ lhead # 0) =>
            methods = <<"HEAD">> /\ lresult.StatusCode = lhead
       /\ (ParseOK(lurl) /\ lhead = 0) =>
            methods = <<"HEAD", "GET">> /\ lresult.StatusCode = lget
       /\ lresult.StatusCode = 0 <=> (~ParseOK(lurl) \/ (lhead = 0 /\ lget = 0))
       /\ lresult.URL = lurl

\* the server answered HEAD with 405 and that was the result
MethodNotAllowedReported ==
  /\ lpc = "done" /\ lhead = 405
  /\ methods = <<"HEAD">> /\ lresult.StatusCode = 405 /\ lresult.Error # ""

BrokenResults == {i \in 1..Len(results) : results[i].StatusCode >= 400}

\* C29: after the check, the broken links the CLI lists are the results
\* with a status code of 400 or more, in order, and the exit code is 1
\* exactly when there is one and fail-on-error is set; a result with status
\* code 0 is not listed and does not make the exit code 1.
BrokenMeansStatus400 ==
  apc = "exited" =>
    /\ Len(brokenLinks) = Cardinality(BrokenResults)
    /\ \A i \in BrokenResults : results[i] \in Range(brokenLinks)
    /\ \A k \in 1..Len(brokenLinks) :
         brokenLinks[k].StatusCode >= 400 /\ brokenLinks[k] \in Range(results)
    /\ \A j, k \in 1..Len(brokenLinks) :
         j < k => \E a, b \in BrokenResults :
                    a < b /\ results[a] = brokenLinks[j] /\ results[b] = brokenLinks[k]
    /\ exitCode = 1 <=> (failOnError /\ BrokenResults # {})
    /\ exitCode \in {0, 1}
    /\ (\A i \in 1..Len(results) : results[i].StatusCode < 400) => exitCode = 0

\* with fail-on-error set, every check failed without a response and the
\* CLI exited with code 0 and an empty list of broken links
FailedChecksPass ==
  /\ apc = "exited" /\ failOnError
  /\ Len(results) = 2
  /\ \A i \in 1..Len(results) : results[i].StatusCode = 0 /\ results[i].Error # ""
  /\ brokenLinks = <<>> /\ exitCode = 0

\* C30: whatever the URL and whatever the probe meets, the path of the
\* resolver's result ends in "/"; the resolver applied to its own result
\* returns it unchanged and sends no HEAD request.
ResolverIsIdempotent ==
  xop = "resolve" =>
    /\ rpc = "done" => EndsInSlash(rout.Path)
    /\ again => /\ rpc = "done"
                /\ rin = firstOut /\ rout = firstOut
                /\ heads = firstHeads

\* the resolver was applied again to a result that a failed probe had made
\* a directory
ReappliedAfterProbe ==
  /\ xop = "resolve" /\ again /\ rpc = "done"
  /\ Len(heads) = 1 /\ ~ProbeAnswered /\ probed # NoProbe
  /\ rout.Path = <<"/", "a", "/">>

====
